---- MODULE Spec2Model ----
(***************************************************************************)
(* use-context-selector: the store (createStore: get / set / subscribe),   *)
(* the selector hook (useStoreSelector: cached snapshot + version) and the *)
(* shallow comparator, as a state machine.                                 *)
(*                                                                         *)
(* JavaScript values are records                                           *)
(*   [kind, ref, num, nan, str, body]                                      *)
(* kind is the runtime kind of the value, ref the identity of an object    *)
(* (0 for a primitive), num / nan / str the payload of a number, a string, *)
(* a Date (its getTime()) or a RegExp (its toString()), body the own       *)
(* contents of a container (array: a sequence; plain object and Map: a     *)
(* function of keys; Set: a function whose domain is the members).         *)
(***************************************************************************)
EXTENDS Integers, Sequences, FiniteSets, TLC

(* ------------------------------------------------------------------ *)
(* Bounds of the model                                                *)
(* ------------------------------------------------------------------ *)
MaxCount == 1
MaxEntries == 2
MaxVersion == 3
MaxHooks == 1
MaxUpdates == 2

(* ------------------------------------------------------------------ *)
(* Values                                                             *)
(* ------------------------------------------------------------------ *)
Undefined == [kind |-> "undefined", ref |-> 0, num |-> 0, nan |-> FALSE, str |-> "", body |-> <<>>, hidden |-> <<>>]
Null == [kind |-> "null", ref |-> 0, num |-> 0, nan |-> FALSE, str |-> "", body |-> <<>>, hidden |-> <<>>]
Num(n) == [kind |-> "number", ref |-> 0, num |-> n, nan |-> FALSE, str |-> "", body |-> <<>>, hidden |-> <<>>]
NaN == [kind |-> "number", ref |-> 0, num |-> 0, nan |-> TRUE, str |-> "", body |-> <<>>, hidden |-> <<>>]
Str(s) == [kind |-> "string", ref |-> 0, num |-> 0, nan |-> FALSE, str |-> s, body |-> <<>>, hidden |-> <<>>]
Bool(b) == [kind |-> "boolean", ref |-> 0, num |-> IF b THEN 1 ELSE 0, nan |-> FALSE, str |-> "", body |-> <<>>, hidden |-> <<>>]
Fn(r) == [kind |-> "function", ref |-> r, num |-> 0, nan |-> FALSE, str |-> "", body |-> <<>>, hidden |-> <<>>]
Obj(r, b) == [kind |-> "object", ref |-> r, num |-> 0, nan |-> FALSE, str |-> "", body |-> b, hidden |-> <<>>]
Arr(r, b) == [kind |-> "array", ref |-> r, num |-> 0, nan |-> FALSE, str |-> "", body |-> b, hidden |-> <<>>]
DateVal(r, t, invalid) == [kind |-> "date", ref |-> r, num |-> t, nan |-> invalid, str |-> "", body |-> <<>>, hidden |-> <<>>]
RegExpVal(r, s) == [kind |-> "regexp", ref |-> r, num |-> 0, nan |-> FALSE, str |-> s, body |-> <<>>, hidden |-> <<>>]
MapVal(r, b) == [kind |-> "map", ref |-> r, num |-> 0, nan |-> FALSE, str |-> "", body |-> b, hidden |-> <<>>]
SetVal(r, b) == [kind |-> "set", ref |-> r, num |-> 0, nan |-> FALSE, str |-> "", body |-> b, hidden |-> <<>>]

\* A plain object with own properties that are not enumerable
\* (Object.defineProperty(o, k, { value })), kept in hidden.
ObjWith(r, b, h) == [Obj(r, b) EXCEPT !.hidden = h]

IsObjectKind(v) == v.kind \in {"object", "array", "date", "regexp", "map", "set"}

\* typeof v
TypeOf(v) ==
  CASE v.kind = "undefined" -> "undefined"
    [] v.kind = "number" -> "number"
    [] v.kind = "string" -> "string"
    [] v.kind = "boolean" -> "boolean"
    [] v.kind = "function" -> "function"
    [] OTHER -> "object"

\* Object.is(a, b): SameValue. Objects by identity, NaN equal to NaN.
ObjectIs(a, b) ==
  IF IsObjectKind(a) \/ IsObjectKind(b) \/ a.kind = "function" \/ b.kind = "function"
  THEN a.kind = b.kind /\ a.ref = b.ref
  ELSE a.kind = b.kind /\ a.num = b.num /\ a.nan = b.nan /\ a.str = b.str

\* A comparison that takes null and undefined for equal (a == b).
StrictEq_Loose(a, b) ==
  ObjectIs(a, b) \/ (a.kind \in {"null", "undefined"} /\ b.kind \in {"null", "undefined"})

\* a === b: as Object.is, but NaN is not equal to NaN.
StrictEq(a, b) == ObjectIs(a, b) /\ ~(a.kind = "number" /\ a.nan)

\* Object.keys(v): the own enumerable string keys (body). A Date, RegExp, Map or Set
\* has none; an array's are its indices (not needed: arrays return earlier).
ObjectKeys(v) == IF v.kind = "object" THEN DOMAIN v.body ELSE {}

\* Object.prototype.hasOwnProperty.call(v, k): an own property, enumerable or not.
HasOwnProperty(v, k) ==
  v.kind = "object" /\ (k \in DOMAIN v.body \/ k \in DOMAIN v.hidden)

\* v[k] for an own property k
GetOwn(v, k) == IF k \in DOMAIN v.body THEN v.body[k] ELSE v.hidden[k]

\* A comparison of containers that only looks up the keys, indices and members
\* of a in b, without comparing the sizes.
shallow_NoSizeTest(a, b) ==
  IF ObjectIs(a, b) THEN TRUE
  ELSE IF a.kind \in {"null", "undefined"} \/ b.kind \in {"null", "undefined"}
    THEN StrictEq(a, b)
  ELSE IF TypeOf(a) # TypeOf(b) THEN FALSE
  ELSE IF TypeOf(a) # "object" \/ TypeOf(b) # "object" THEN FALSE
  ELSE IF a.kind = "array" /\ b.kind = "array"
    THEN \A i \in 1..Len(a.body) : i <= Len(b.body) /\ ObjectIs(a.body[i], b.body[i])
  ELSE IF a.kind = "array" \/ b.kind = "array" THEN FALSE
  ELSE IF a.kind = "date" /\ b.kind = "date"
    THEN ~a.nan /\ ~b.nan /\ a.num = b.num
  ELSE IF a.kind = "regexp" /\ b.kind = "regexp" THEN a.str = b.str
  ELSE IF a.kind = "map" /\ b.kind = "map"
    THEN \A k \in DOMAIN a.body :
           k \in DOMAIN b.body /\ ObjectIs(a.body[k], b.body[k])
  ELSE IF a.kind = "set" /\ b.kind = "set"
    THEN \A m \in DOMAIN a.body : m \in DOMAIN b.body
  ELSE \A k \in ObjectKeys(a) :
         HasOwnProperty(b, k) /\ ObjectIs(a.body[k], GetOwn(b, k))

\* utils/shallow.ts
shallow(a, b) ==
  IF ObjectIs(a, b) THEN TRUE
  ELSE IF a.kind \in {"null", "undefined"} \/ b.kind \in {"null", "undefined"}
    THEN StrictEq(a, b)
  ELSE IF TypeOf(a) # TypeOf(b) THEN FALSE
  ELSE IF TypeOf(a) # "object" \/ TypeOf(b) # "object" THEN FALSE
  ELSE IF a.kind = "array" /\ b.kind = "array"
    THEN /\ Len(a.body) = Len(b.body)
         /\ \A i \in 1..Len(a.body) : ObjectIs(a.body[i], b.body[i])
  ELSE IF a.kind = "array" \/ b.kind = "array" THEN FALSE
  ELSE IF a.kind = "date" /\ b.kind = "date"
    THEN ~a.nan /\ ~b.nan /\ a.num = b.num
  ELSE IF a.kind = "regexp" /\ b.kind = "regexp" THEN a.str = b.str
  ELSE IF a.kind = "map" /\ b.kind = "map"
    THEN /\ Cardinality(DOMAIN a.body) = Cardinality(DOMAIN b.body)
         /\ \A k \in DOMAIN a.body :
              k \in DOMAIN b.body /\ ObjectIs(a.body[k], b.body[k])
  ELSE IF a.kind = "set" /\ b.kind = "set"
    THEN /\ Cardinality(DOMAIN a.body) = Cardinality(DOMAIN b.body)
         /\ \A m \in DOMAIN a.body : m \in DOMAIN b.body
  ELSE /\ Cardinality(ObjectKeys(a)) = Cardinality(ObjectKeys(b))
       /\ \A k \in ObjectKeys(a) :
            HasOwnProperty(b, k) /\ ObjectIs(a.body[k], GetOwn(b, k))

(* ------------------------------------------------------------------ *)
(* The store: createStore's closure (value, listeners) and $version   *)
(* ------------------------------------------------------------------ *)
VARIABLES
  value,      \* let value: the current State object
  listeners,  \* the Set<Entry>, as the sequence of entry ids in insertion order
  version,    \* store.$version
  entries,    \* the Entry objects created so far: id -> {callback, selector, equalityFn}
  hooks,      \* the useStoreSelector call sites: their refs and what they returned last
  calls,      \* the set calls the last operation made, nested ones included
  removed,    \* the entries whose unsubscribe thunk has been called
  thrown,     \* the error the last operation threw to its caller ("" when none)
  run,        \* the consecutive set(fn) calls made last
  cmp,        \* the last call of shallow: its arguments and its result
  op          \* the last operation performed

vars == <<value, listeners, version, entries, hooks, calls, removed, thrown, run, cmp, op>>

\* A composite field value: an object of its own identity.
User1 == Obj(1, [name |-> Str("John")])
\* A second object with the same contents.
User2 == Obj(2, [name |-> Str("John")])
Names == {"x", "y"}
Counts == 0..MaxCount

\* The State objects: { count, name, user }.
StateBody(c, n, u) == [count |-> Num(c), name |-> Str(n), user |-> u]

\* createStore(initialValue): line 41, value = initialValue
InitialValue == Obj(3, StateBody(0, "x", User1))

\* A reference no live object has: what an object literal or a spread allocates.
FreshRef(used) ==
  LET free == {r \in 1..(Cardinality(used) + 1) : r \notin used}
  IN CHOOSE r \in free : \A q \in free : r <= q

\* The references reachable from a store and its observers.
LiveRefs(w) ==
  {User1.ref, User2.ref, w.value.ref}
    \cup {w.hooks[h].lastSnapshot.ref : h \in DOMAIN w.hooks}
    \cup {w.hooks[h].ret.ref : h \in DOMAIN w.hooks}
    \cup {w.calls[i].old.ref : i \in DOMAIN w.calls}
    \cup {w.calls[i].new.ref : i \in DOMAIN w.calls}

\* Selectors that all read the count field.
ApplyFn_AlwaysCount(selector, state, r) ==
  IF selector = "countObj" THEN Obj(r, [count |-> state.body.count])
  ELSE state.body.count

\* The selectors of the tests: s => s.count, s => s.name, s => s.user and
\* s => ({ count: s.count }), which allocates an object (ref r) on every call;
\* and a selector that throws on some states:
\*   s => { if (s.name === "y") throw new Error(); return s.name }
Selectors == {"count", "name", "user", "countObj", "nameChecked"}

ApplyFn(selector, state, r) ==
  CASE selector = "count" -> state.body.count
    [] selector = "name" -> state.body.name
    [] selector = "user" -> state.body.user
    [] selector = "countObj" -> Obj(r, [count |-> state.body.count])
    [] selector = "nameChecked" -> state.body.name

\* Whether the selector throws on a state.
SelectorThrows(selector, state) ==
  selector = "nameChecked" /\ state.body.name = Str("y")

\* The equality functions: Object.is (subscribe's default) and shallow; and one
\* that throws on every call.
EqualityFns == {"is", "shallow", "throws"}

CallEq(equalityFn, a, b) ==
  IF equalityFn = "shallow" THEN shallow(a, b) ELSE ObjectIs(a, b)

\* A merge that clones the composite fields it keeps.
Spread_Cloning(a, b) ==
  [k \in (DOMAIN a) \cup (DOMAIN b) |->
     IF k \in DOMAIN b THEN b[k]
     ELSE IF IsObjectKind(a[k]) THEN [a[k] EXCEPT !.ref = @ + 10]
     ELSE a[k]]

\* A spread in the wrong order: { ...b, ...a }.
Spread_Reversed(a, b) ==
  [k \in (DOMAIN a) \cup (DOMAIN b) |-> IF k \in DOMAIN a THEN a[k] ELSE b[k]]

\* { ...a, ...b } over the own keys of two objects
Spread(a, b) ==
  [k \in (DOMAIN a) \cup (DOMAIN b) |-> IF k \in DOMAIN b THEN b[k] ELSE a[k]]

\* An updater function called with the initial state instead of the current one.
ResolveUpdate_InitialState(nextState, v) ==
  IF nextState.fn # ""
  THEN [count |-> Num(InitialValue.body.count.num + 1)]
  ELSE nextState.partial

\* set, line 46-47: the update is nextState(value) for a function, nextState otherwise.
\* The updater function of the tests is state => ({ count: state.count + 1 }).
ResolveUpdate(nextState, v) ==
  IF nextState.fn # ""
  THEN [count |-> Num(v.body.count.num + 1)]
  ELSE nextState.partial

\* set, line 49: const newState = { ...value, ...update }
NewState(v, update, r) == Obj(r, Spread(v.body, update))

\* A set that queues every entry, changed or not.
EntryChanged_Always(entry, newState, v, r1, r2) == TRUE

\* set, line 53: !entry.equalityFn(entry.selector(newState), entry.selector(value))
\* r1, r2: the references of the objects the two selector calls allocate.
EntryChanged(entry, newState, v, r1, r2) ==
  ~CallEq(entry.equalityFn,
          ApplyFn(entry.selector, newState, r1),
          ApplyFn(entry.selector, v, r2))

\* set, line 50-55: the callbacks of the changed entries, in the Set's iteration order
UpdateQueue(w, newState) ==
  LET r1 == FreshRef(LiveRefs(w) \cup {newState.ref})
      r2 == FreshRef(LiveRefs(w) \cup {newState.ref, r1})
  IN SelectSeq(w.listeners,
               LAMBDA id : EntryChanged(w.entries[id], newState, w.value, r1, r2))

\* A test of an entry that swallows what its selector and equality function
\* throw.
EntryThrows_Never(entry, newState, v) == ""

\* set, line 53: what evaluating the test of an entry throws ("" when nothing):
\* selector(newState), then selector(value), then equalityFn.
EntryThrows(entry, newState, v) ==
  IF SelectorThrows(entry.selector, newState) \/ SelectorThrows(entry.selector, v)
  THEN "selector"
  ELSE IF entry.equalityFn = "throws" THEN "equalityFn"
  ELSE ""

\* set, line 52: the position in the Set's iteration order of the first entry
\* whose test throws, 0 when none does.
ThrowAt(w, newState) ==
  LET bad == {i \in DOMAIN w.listeners :
                EntryThrows(w.entries[w.listeners[i]], newState, w.value) # ""}
  IN IF bad = {} THEN 0 ELSE CHOOSE i \in bad : \A j \in bad : i <= j

\* A counter that wraps to 0 after 2.
Increment_Wrapping(v) == (v + 1) % 3

\* A counter advanced by two.
Increment_Twice(v) == v + 2

\* store.$version++ : the new value of the counter
Increment(v) == v + 1

\* The callbacks: a spy (vi.fn()), the host's listener of a hook, and a callback
\* that calls store.set({ name: "y" }) itself.
Callbacks == {"spy", "host", "setName"}

\* The callbacks that change the listeners or throw while they are notified:
\* "subscribe" calls store.subscribe(spy, countObj), "unsubscribeNext" calls the
\* thunk of the entry subscribed after its own, "throws" throws.
ActingCallbacks == {"subscribe", "unsubscribeNext", "throws"}

\* store.get(), line 63-65
get(w) == w.value

\* A subscribe that advances the version.
subscribe_AdvancesVersion(w, id, callback, selector, equalityFn, h) ==
  LET entry == [callback |-> callback, selector |-> selector,
                equalityFn |-> IF equalityFn = "undefined" THEN "is" ELSE equalityFn,
                hook |-> h]
  IN [w EXCEPT !.entries = Append(@, entry), !.listeners = Append(@, id),
               !.version = @ + 1]

\* store.subscribe(callback, selector, equalityFn = Object.is), line 67-79:
\* a new Entry object is added to the Set. The Entry's identity is id.
subscribe(w, id, callback, selector, equalityFn, h) ==
  LET entry == [callback |-> callback, selector |-> selector,
                equalityFn |-> IF equalityFn = "undefined" THEN "is" ELSE equalityFn,
                hook |-> h]
  IN [w EXCEPT !.entries = Append(@, entry), !.listeners = Append(@, id)]

\* A thunk that deletes the entry subscribed last instead of its own.
unsubscribe_Last(w, id) ==
  [w EXCEPT !.listeners = SubSeq(@, 1, Len(@) - 1)]

\* A thunk that deletes every entry subscribed with the same callback, selector
\* and equality function as its own.
unsubscribe_SameArguments(w, id) ==
  [w EXCEPT !.listeners = SelectSeq(@, LAMBDA x : w.entries[x] # w.entries[id])]

\* the returned thunk, line 78: listeners.delete(entry)
unsubscribe(w, id) ==
  [w EXCEPT !.listeners = SelectSeq(@, LAMBDA x : x # id)]

\* How many callbacks the set calls of the running operation have invoked so far.
RECURSIVE Invoked(_, _)
Invoked(log, k) == IF k = 0 THEN 0 ELSE Len(log[k].invoked) + Invoked(log, k - 1)

RECURSIVE set(_, _, _)

\* One queued callback, run by the set call calls[k] at nesting depth d. The
\* callback that subscribes does so while the store has at most MaxEntries
\* entries beside the one it adds.
RunCallback(w, id, k, d) ==
  LET seen == [entry |-> id, version |-> w.version, value |-> w.value,
               order |-> Invoked(w.calls, Len(w.calls)) + 1]
      w1 == [w EXCEPT !.calls[k].invoked = Append(@, seen)]
      callback == w.entries[id].callback
  IN IF callback = "setName"
     THEN set(w1, [fn |-> "", partial |-> [name |-> Str("y")]], d + 1)
     ELSE IF callback = "subscribe" /\ Len(w.entries) <= MaxEntries
     THEN subscribe(w1, Len(w.entries) + 1, "spy", "countObj", "undefined", 0)
     ELSE IF callback = "unsubscribeNext" /\ id + 1 \in DOMAIN w.entries
     THEN [unsubscribe(w1, id + 1) EXCEPT !.removed = @ \cup {id + 1}]
     ELSE IF callback = "throws"
     THEN [w1 EXCEPT !.thrown = "callback"]
     ELSE w1

\* A forEach that stops after one callback.
ForEach_Once(w, queue, i, k, d) ==
  IF i > Len(queue) \/ i > 1 THEN w ELSE RunCallback(w, queue[i], k, d)

RECURSIVE ForEach(_, _, _, _, _)

\* A forEach that skips the callbacks of the entries deleted in the meantime.
ForEach_LiveOnly(w, queue, i, k, d) ==
  IF i > Len(queue) \/ w.thrown # "" THEN w
  ELSE ForEach(IF \E n \in DOMAIN w.listeners : w.listeners[n] = queue[i]
               THEN RunCallback(w, queue[i], k, d) ELSE w,
               queue, i + 1, k, d)

\* A forEach that goes on with the next callback when one throws.
ForEach_Continue(w, queue, i, k, d) ==
  IF i > Len(queue) THEN w
  ELSE ForEach(RunCallback(w, queue[i], k, d), queue, i + 1, k, d)

\* updateQueue.forEach(cb => cb()), from index i on
ForEach(w, queue, i, k, d) ==
  IF i > Len(queue) \/ w.thrown # "" THEN w
  ELSE ForEach(RunCallback(w, queue[i], k, d), queue, i + 1, k, d)

\* A set that runs the queued callbacks before it advances the version.
Notify_CallbacksFirst(w, queue, k, d) ==
  IF Len(queue) # 0
  THEN LET w1 == ForEach(w, queue, 1, k, d)
       IN [w1 EXCEPT !.version = Increment(w1.version),
                     !.calls[k].after = Increment(w1.version)]
  ELSE w

\* A set that advances the version whether or not a callback is queued.
Notify_AlwaysIncrement(w, queue, k, d) ==
  LET old == w.version
      w1 == [w EXCEPT !.version = Increment(old),
                      !.calls[k].after = Increment(old)]
  IN IF old # 0 THEN ForEach(w1, queue, 1, k, d) ELSE w1

\* set, line 58-60:
\*   if (updateQueue.length) { store.$version++ && updateQueue.forEach(cb => cb()) }
Notify(w, queue, k, d) ==
  IF Len(queue) # 0
  THEN LET old == w.version
           w1 == [w EXCEPT !.version = Increment(old),
                           !.calls[k].after = Increment(old)]
       IN IF old # 0 THEN ForEach(w1, queue, 1, k, d) ELSE w1
  ELSE w

\* A set that commits the new state only when it queued a callback.
set_CommitWhenQueued(w, nextState, d) ==
  LET update == ResolveUpdate(nextState, w.value)
      newState == NewState(w.value, update, FreshRef(LiveRefs(w)))
      updateQueue == UpdateQueue(w, newState)
      k == Len(w.calls) + 1
      call == [depth |-> d, live |-> w.listeners, old |-> w.value,
               update |-> update, new |-> newState, queue |-> updateQueue,
               before |-> w.version, after |-> w.version, invoked |-> <<>>,
               tested |-> [j \in DOMAIN w.listeners |->
                             [entry |-> w.listeners[j], value |-> get(w)]],
               start |-> Invoked(w.calls, Len(w.calls)), returned |-> FALSE]
      w1 == [w EXCEPT !.value = IF Len(updateQueue) # 0 THEN newState ELSE @,
                      !.calls = Append(@, call)]
      w2 == Notify(w1, updateQueue, k, d)
  IN [w2 EXCEPT !.calls[k].returned = TRUE]

\* A set that ignores the calls made while another set call is running.
set_IgnoreReentrant(w, nextState, d) ==
  LET update == ResolveUpdate(nextState, w.value)
      newState == NewState(w.value, update, FreshRef(LiveRefs(w)))
      updateQueue == UpdateQueue(w, newState)
      k == Len(w.calls) + 1
      call == [depth |-> d, live |-> w.listeners, old |-> w.value,
               update |-> update, new |-> newState, queue |-> updateQueue,
               before |-> w.version, after |-> w.version, invoked |-> <<>>,
               tested |-> [j \in DOMAIN w.listeners |->
                             [entry |-> w.listeners[j], value |-> get(w)]],
               start |-> Invoked(w.calls, Len(w.calls)), returned |-> FALSE]
      w1 == [w EXCEPT !.value = newState, !.calls = Append(@, call)]
      w2 == Notify(w1, updateQueue, k, d)
  IN IF d > 0 THEN w ELSE [w2 EXCEPT !.calls[k].returned = TRUE]

\* A set that commits the new state before it tests the entries.
set_CommitBeforeTests(w, nextState, d) ==
  LET update == ResolveUpdate(nextState, w.value)
      newState == NewState(w.value, update, FreshRef(LiveRefs(w)))
      w0 == [w EXCEPT !.value = newState]
      updateQueue == UpdateQueue(w, newState)
      k == Len(w.calls) + 1
      call == [depth |-> d, live |-> w.listeners, old |-> w.value,
               update |-> update, new |-> newState, queue |-> updateQueue,
               before |-> w.version, after |-> w.version, invoked |-> <<>>,
               tested |-> [j \in DOMAIN w.listeners |->
                             [entry |-> w.listeners[j], value |-> get(w0)]],
               start |-> Invoked(w.calls, Len(w.calls)), returned |-> FALSE]
      w1 == [w0 EXCEPT !.calls = Append(@, call)]
      w2 == Notify(w1, updateQueue, k, d)
  IN [w2 EXCEPT !.calls[k].returned = TRUE]

\* store.set(nextState), line 45-61, on the store w; the call is logged as calls[k].
\* tested is what store.get() returns while each entry is tested, invoked what it
\* returns (and the version) when each queued callback is invoked.
\* When the test of an entry throws (line 53), the call ends there, with the
\* callbacks of the entries before it queued and nothing committed; when a
\* callback throws (here: because the set it called threw), the call ends there.
set(w, nextState, d) ==
  LET update == ResolveUpdate(nextState, w.value)
      newState == NewState(w.value, update, FreshRef(LiveRefs(w)))
      at == ThrowAt(w, newState)
      updateQueue ==
        IF at = 0 THEN UpdateQueue(w, newState)
        ELSE UpdateQueue([w EXCEPT !.listeners = SubSeq(@, 1, at - 1)], newState)
      k == Len(w.calls) + 1
      call == [depth |-> d, live |-> w.listeners, old |-> w.value,
               update |-> update, new |-> newState, queue |-> updateQueue,
               before |-> w.version, after |-> w.version, invoked |-> <<>>,
               tested |-> [j \in 1..(IF at = 0 THEN Len(w.listeners) ELSE at) |->
                             [entry |-> w.listeners[j], value |-> get(w)]],
               start |-> Invoked(w.calls, Len(w.calls)), returned |-> FALSE]
      w1 == [w EXCEPT !.value = newState, !.calls = Append(@, call)]
      w2 == Notify(w1, updateQueue, k, d)
  IN IF at # 0
     THEN [w EXCEPT !.calls = Append(@, call),
                    !.thrown = EntryThrows(w.entries[w.listeners[at]], newState, w.value)]
     ELSE IF w2.thrown # "" THEN w2
     ELSE [w2 EXCEPT !.calls[k].returned = TRUE]

(* ------------------------------------------------------------------ *)
(* The selector hook: useStoreSelector                                *)
(* ------------------------------------------------------------------ *)
Hooks == 1..MaxHooks

\* applySelector(store, selector), line 94-99
applySelector(w, selector, r) ==
  IF selector # "undefined" THEN ApplyFn(selector, get(w), r) ELSE get(w)

\* How often applySelector(store, selector) calls the selector, line 98.
Applications(selector) == IF selector # "undefined" THEN 1 ELSE 0

\* A call site before its first render.
NoHook ==
  [phase |-> "unmounted", selector |-> "undefined", equalityFn |-> "undefined",
   lastSnapshot |-> Undefined, lastVersion |-> 0, entry |-> 0,
   ret |-> Undefined, since |-> "unread", read |-> "none", prev |-> "none",
   applied |-> 0]

\* useStoreSelector(context, selector, equalityFn), first render, line 112-119:
\* the two refs are seeded from the store.
useStoreSelector(w, h, selector, equalityFn) ==
  [w EXCEPT !.hooks[h] =
     [NoHook EXCEPT !.phase = "mounted", !.selector = selector,
                    !.equalityFn = equalityFn,
                    !.lastSnapshot = applySelector(w, selector, FreshRef(LiveRefs(w))),
                    !.lastVersion = w.version,
                    !.applied = Applications(selector)]]

\* useContext(context): the store of the enclosing Provider, null without one.
useContext(provided) == IF provided THEN "store" ELSE "null"

ProviderError == "useStoreSelector must be used within a Provider"

\* A hook that seeds its refs before it looks at the store it was given.
render_SeedBeforeCheck(w, provided, h, selector, equalityFn) ==
  IF useContext(provided) = "null"
  THEN [useStoreSelector(w, h, selector, equalityFn) EXCEPT !.thrown = ProviderError]
  ELSE useStoreSelector(w, h, selector, equalityFn)

\* useStoreSelector, line 112-119, rendered inside or outside a Provider:
\* without a store it throws before anything else.
render(w, provided, h, selector, equalityFn) ==
  IF useContext(provided) = "null"
  THEN [w EXCEPT !.thrown = ProviderError]
  ELSE useStoreSelector(w, h, selector, equalityFn)

\* A version test that never trusts the cache.
SameVersion_Never(lastVersion, currentVersion) == FALSE

\* getSnapshot, line 127: lastVersionRef.current === currentVersion
SameVersion(lastVersion, currentVersion) == lastVersion = currentVersion

\* A getSnapshot that replaces the snapshot and forgets to record the version.
getSnapshot_VersionNotRecorded(w, h) ==
  LET hook == w.hooks[h]
      nextSnapshot == applySelector(w, hook.selector, FreshRef(LiveRefs(w)))
      currentVersion == w.version
  IN IF SameVersion(hook.lastVersion, currentVersion)
     THEN [w EXCEPT !.hooks[h].ret = hook.lastSnapshot,
                    !.hooks[h].applied = Applications(hook.selector),
                    !.hooks[h].since = "clean", !.hooks[h].read = "cached",
                    !.hooks[h].prev = IF hook.since = "clean" THEN hook.read ELSE "none"]
     ELSE [w EXCEPT !.hooks[h].lastSnapshot = nextSnapshot,
                    !.hooks[h].applied = Applications(hook.selector),
                    !.hooks[h].ret = nextSnapshot,
                    !.hooks[h].since = "clean", !.hooks[h].read = "refresh",
                    !.hooks[h].prev = IF hook.since = "clean" THEN hook.read ELSE "none"]

\* getSnapshot, line 123-134. ret is what the call returned, applied how often the
\* call applied the selector: line 124 computes nextSnapshot before line 127
\* compares the versions, on either branch. The rest records the
\* reads: read is what the last read did ("refresh": it replaced the cache,
\* "cached": it returned the cache), prev what the read before it did when no set
\* call came between the two ("none" otherwise), and since what has happened
\* after the last read: "unread" (no read yet), "clean" (no set call), "stable"
\* (set calls that all left the hook's selection unchanged by its equality
\* function), "changed".
getSnapshot(w, h) ==
  LET hook == w.hooks[h]
      nextSnapshot == applySelector(w, hook.selector, FreshRef(LiveRefs(w)))
      currentVersion == w.version
  IN IF SameVersion(hook.lastVersion, currentVersion)
     THEN [w EXCEPT !.hooks[h].ret = hook.lastSnapshot,
                    !.hooks[h].applied = Applications(hook.selector),
                    !.hooks[h].since = "clean", !.hooks[h].read = "cached",
                    !.hooks[h].prev = IF hook.since = "clean" THEN hook.read ELSE "none"]
     ELSE [w EXCEPT !.hooks[h].lastSnapshot = nextSnapshot,
                    !.hooks[h].applied = Applications(hook.selector),
                    !.hooks[h].lastVersion = currentVersion,
                    !.hooks[h].ret = nextSnapshot,
                    !.hooks[h].since = "clean", !.hooks[h].read = "refresh",
                    !.hooks[h].prev = IF hook.since = "clean" THEN hook.read ELSE "none"]

\* Whether a set call left the selection of hook h unchanged, by the hook's own
\* equality function (Object.is when none was given).
Unchanged(hook, call) ==
  CallEq(hook.equalityFn,
         ApplyFn(hook.selector, call.new, 0 - 1),
         ApplyFn(hook.selector, call.old, 0 - 2))

(* ------------------------------------------------------------------ *)
(* The state machine                                                  *)
(* ------------------------------------------------------------------ *)
\* The store and its observers before an operation; the log starts empty.
World ==
  [value |-> value, listeners |-> listeners, version |-> version,
   entries |-> entries, hooks |-> hooks, calls |-> <<>>, removed |-> removed,
   thrown |-> "", run |-> run, cmp |-> cmp]

Commit(w) ==
  /\ value' = w.value
  /\ listeners' = w.listeners
  /\ version' = w.version
  /\ entries' = w.entries
  /\ hooks' = w.hooks
  /\ calls' = w.calls
  /\ removed' = w.removed
  /\ thrown' = w.thrown
  /\ run' = w.run
  /\ cmp' = w.cmp

\* A call of the thunk subscribe returned for entry id.
Thunk(w, id) == [unsubscribe(w, id) EXCEPT !.removed = @ \cup {id}]

EmptyPartial == [k \in {} |-> Null]

\* The partial updates: {}, { count }, { name }.
Partials ==
  {EmptyPartial}
    \cup {[count |-> Num(c)] : c \in Counts}
    \cup {[name |-> Str(n)] : n \in Names}

\* What store.set is called with: a partial object or the updater function.
NextStates ==
  {[fn |-> "", partial |-> p] : p \in Partials}
    \cup {[fn |-> "increment", partial |-> EmptyPartial]}

\* What subscribe is called with from outside a component: the subscriptions of
\* the tests.
SubscribeArgs ==
  {<<"spy", sel, "undefined">> : sel \in {"count", "name", "countObj"}}
    \cup {<<"spy", "countObj", "shallow">>}

\* What useStoreSelector is called with.
HookArgs ==
  {<<sel, "undefined">> : sel \in {"count", "countObj"}} \cup {<<"countObj", "shallow">>}

\* No set(fn) call made yet: n calls in a row, the first on count = base, live the
\* entries registered at every one of them, hits how often each was invoked.
NoRun == [n |-> 0, base |-> 0, live |-> {}, hits |-> [id \in 1..MaxEntries |-> 0]]

\* shallow not called yet.
NoCmp == [a |-> Undefined, b |-> Undefined, done |-> FALSE, result |-> FALSE]

Init ==
  /\ value = InitialValue
  /\ listeners = <<>>
  /\ version = 1
  /\ entries = <<>>
  /\ hooks = [h \in Hooks |-> NoHook]
  /\ calls = <<>>
  /\ removed = {}
  /\ thrown = ""
  /\ run = NoRun
  /\ cmp = NoCmp
  /\ op = [name |-> "create", id |-> 0]

\* store.set(partial) and store.set(fn), called from outside any callback
Set(nextState) ==
  /\ version < MaxVersion
  /\ nextState.fn # "" => value.body.count.num < MaxCount
  /\ LET w == set(World, nextState, 0)
     IN Commit([w EXCEPT !.run = NoRun, !.hooks =
          [h \in DOMAIN w.hooks |->
             [w.hooks[h] EXCEPT !.since =
                IF @ = "unread" THEN "unread"
                ELSE IF @ \in {"clean", "stable"}
                        /\ \A i \in DOMAIN w.calls : Unchanged(w.hooks[h], w.calls[i])
                     THEN "stable"
                     ELSE "changed"]]])
  /\ op' = [name |-> "set", id |-> 0]

\* How often the set calls of an operation invoked the callback of entry id.
Hits(w, id) ==
  Cardinality({<<i, j>> \in (DOMAIN w.calls) \X (1..MaxEntries) :
                 j \in DOMAIN w.calls[i].invoked /\ w.calls[i].invoked[j].entry = id})

\* store.set(state => ({ count: state.count + 1 })), called from outside any
\* callback; run counts the calls made in a row.
SetUpdater ==
  /\ version < MaxVersion
  /\ value.body.count.num < MaxUpdates
  /\ run.n < MaxUpdates
  /\ LET w == set(World, [fn |-> "increment", partial |-> EmptyPartial], 0)
         live == {w.calls[1].live[j] : j \in DOMAIN w.calls[1].live}
     IN Commit([w EXCEPT !.run =
          [n |-> run.n + 1,
           base |-> IF run.n = 0 THEN value.body.count.num ELSE run.base,
           live |-> IF run.n = 0 THEN live ELSE run.live \cap live,
           hits |-> [id \in 1..MaxEntries |-> run.hits[id] + Hits(w, id)]]])
  /\ op' = [name |-> "setFn", id |-> 0]

\* store.get()
Get ==
  /\ Commit([World EXCEPT !.value = get(World)])
  /\ op' = [name |-> "get", id |-> 0]

\* store.subscribe(callback, selector, equalityFn) from outside a component.
Subscribe(callback, selector, equalityFn) ==
  /\ Len(entries) < MaxEntries
  /\ Commit(subscribe(World, Len(entries) + 1, callback, selector, equalityFn, 0))
  /\ op' = [name |-> "subscribe", id |-> Len(entries) + 1]

\* Calling the thunk subscribe returned for entry id (any number of times).
Unsubscribe(id) ==
  /\ id \in DOMAIN entries
  /\ entries[id].hook = 0
  /\ Commit(Thunk(World, id))
  /\ op' = [name |-> "unsubscribe", id |-> id]

\* The first render of a component that calls useStoreSelector.
Mount(h, selector, equalityFn) ==
  /\ hooks[h].phase = "unmounted"
  /\ Commit(useStoreSelector(World, h, selector, equalityFn))
  /\ op' = [name |-> "mount", id |-> h]

\* The first render of a component that calls useStoreSelector with no Provider
\* above it.
MountOutside(h, selector, equalityFn) ==
  /\ hooks[h].phase = "unmounted"
  /\ Commit(render(World, FALSE, h, selector, equalityFn))
  /\ op' = [name |-> "mountOutside", id |-> h]

\* The host calls getSnapshot.
Read(h) ==
  /\ hooks[h].phase # "unmounted"
  /\ Commit(getSnapshot(World, h))
  /\ op' = [name |-> "read", id |-> h]

\* The host calls the subscribe function it was given, line 122:
\*   listener => store.subscribe(listener, selector, equalityFn)
HookSubscribe(h) ==
  /\ hooks[h].phase = "mounted"
  /\ Len(entries) < MaxEntries
  /\ LET id == Len(entries) + 1
         w == subscribe(World, id, "host", hooks[h].selector, hooks[h].equalityFn, h)
     IN Commit([w EXCEPT !.hooks[h].phase = "subscribed", !.hooks[h].entry = id])
  /\ op' = [name |-> "hookSubscribe", id |-> h]

\* The host calls the thunk its subscription returned.
HookUnsubscribe(h) ==
  /\ hooks[h].phase = "subscribed"
  /\ LET w == Thunk(World, hooks[h].entry)
     IN Commit([w EXCEPT !.hooks[h].phase = "mounted"])
  /\ op' = [name |-> "hookUnsubscribe", id |-> h]

\* The store alone: set, get, subscribe and the thunks.
StoreNext ==
  \/ \E nextState \in NextStates : Set(nextState)
  \/ Get
  \/ \E a \in SubscribeArgs : Subscribe(a[1], a[2], a[3])
  \/ \E id \in 1..MaxEntries : Unsubscribe(id)

Spec == Init /\ [][StoreNext]_vars

\* What set and subscribe are called with where callbacks call set themselves.
ReentrantNextStates ==
  {[fn |-> "", partial |-> p] :
     p \in {[count |-> Num(c)] : c \in Counts} \cup {[name |-> Str(n)] : n \in Names}}

ReentrantArgs ==
  {<<cb, sel, "undefined">> : cb \in {"spy", "setName"}, sel \in {"count", "name"}}

\* The store with callbacks that call store.set.
ReentrantNext ==
  \/ \E nextState \in ReentrantNextStates : Set(nextState)
  \/ \E a \in ReentrantArgs : Subscribe(a[1], a[2], a[3])
  \/ \E id \in 1..MaxEntries : Unsubscribe(id)

ReentrantSpec == Init /\ [][ReentrantNext]_vars

\* What subscribe is called with where an entry is queued by a set call and by the
\* set call one of that call's callbacks makes.
NestedArgs ==
  {<<"setName", "count", "undefined">>, <<"spy", "countObj", "undefined">>,
   <<"spy", "name", "undefined">>}

\* The store with a callback that calls store.set before other queued callbacks run.
NestedNext ==
  \/ \E nextState \in ReentrantNextStates : Set(nextState)
  \/ \E a \in NestedArgs : Subscribe(a[1], a[2], a[3])
  \/ \E id \in 1..MaxEntries : Unsubscribe(id)

NestedSpec == Init /\ [][NestedNext]_vars

\* What subscribe is called with where callbacks subscribe and unsubscribe.
ListenerArgs ==
  {<<cb, "count", "undefined">> : cb \in {"spy", "subscribe", "unsubscribeNext"}}

\* The store with callbacks that change the listeners while they are notified.
ListenerNext ==
  \/ \E nextState \in ReentrantNextStates : Set(nextState)
  \/ \E a \in ListenerArgs : Subscribe(a[1], a[2], a[3])
  \/ \E id \in 1..MaxEntries : Unsubscribe(id)

ListenerSpec == Init /\ [][ListenerNext]_vars

\* What subscribe is called with where callbacks throw.
CallbackThrowArgs ==
  {<<cb, "count", "undefined">> : cb \in {"spy", "throws", "setName"}}
    \cup {<<"throws", "name", "undefined">>}

\* The store with callbacks that throw.
CallbackThrowNext ==
  \/ \E nextState \in ReentrantNextStates : Set(nextState)
  \/ \E a \in CallbackThrowArgs : Subscribe(a[1], a[2], a[3])
  \/ \E id \in 1..MaxEntries : Unsubscribe(id)

CallbackThrowSpec == Init /\ [][CallbackThrowNext]_vars

\* Two call sites of useStoreSelector beside the store's own operations; the host
\* reads the first, the second keeps the cache its first render seeded.
FrameHooks == 1..(MaxHooks + 1)

FrameInit ==
  /\ value = InitialValue
  /\ listeners = <<>>
  /\ version = 1
  /\ entries = <<>>
  /\ hooks = [h \in FrameHooks |-> NoHook]
  /\ calls = <<>>
  /\ removed = {}
  /\ thrown = ""
  /\ run = NoRun
  /\ cmp = NoCmp
  /\ op = [name |-> "create", id |-> 0]

FrameNextStates == {[fn |-> "", partial |-> [count |-> Num(c)]] : c \in Counts}

FrameArgs ==
  {<<cb, "count", "undefined">> : cb \in {"subscribe", "unsubscribeNext"}}

\* Every operation of the store, the first renders of two components and the
\* reads of the first.
FrameNext ==
  \/ \E nextState \in FrameNextStates : Set(nextState)
  \/ Get
  \/ \E a \in FrameArgs : Subscribe(a[1], a[2], a[3])
  \/ \E id \in 1..MaxEntries : Unsubscribe(id)
  \/ \E h \in FrameHooks : Mount(h, "count", "undefined")
  \/ Read(1)

FrameSpec == FrameInit /\ [][FrameNext]_vars

\* What set and subscribe are called with beside the updater function.
UpdaterNextStates ==
  {[fn |-> "", partial |-> p] : p \in {[count |-> Num(0)], [name |-> Str("y")]}}

UpdaterArgs ==
  {<<"spy", "count", "undefined">>, <<"spy", "name", "undefined">>,
   <<"spy", "countObj", "shallow">>}

\* The store updated through the updater function.
UpdaterNext ==
  \/ SetUpdater
  \/ \E nextState \in UpdaterNextStates : Set(nextState)
  \/ \E a \in UpdaterArgs : Subscribe(a[1], a[2], a[3])
  \/ \E id \in 1..MaxEntries : Unsubscribe(id)

UpdaterSpec == Init /\ [][UpdaterNext]_vars

\* What set and subscribe are called with where a composite field is replaced.
FieldNextStates ==
  {[fn |-> "", partial |-> p] :
     p \in {[count |-> Num(c)] : c \in Counts} \cup {[user |-> User1], [user |-> User2]}}

FieldArgs ==
  {<<"spy", "user", "undefined">>, <<"spy", "count", "undefined">>,
   <<"setName", "count", "undefined">>}

\* The store with a composite field.
FieldNext ==
  \/ \E nextState \in FieldNextStates : Set(nextState)
  \/ \E a \in FieldArgs : Subscribe(a[1], a[2], a[3])
  \/ \E id \in 1..MaxEntries : Unsubscribe(id)

FieldSpec == Init /\ [][FieldNext]_vars

\* What subscribe is called with beside a mounted component.
OtherArgs == {<<"spy", "name", "undefined">>}

\* What set is called with beside a mounted component.
HookNextStates ==
  {[fn |-> "", partial |-> p] :
     p \in {[name |-> Str("y")]} \cup {[count |-> Num(c)] : c \in Counts}}

\* The store read through useStoreSelector, beside other subscribers.
HookNext ==
  \/ \E nextState \in HookNextStates : Set(nextState)
  \/ \E a \in OtherArgs : Subscribe(a[1], a[2], a[3])
  \/ \E h \in Hooks, a \in HookArgs : Mount(h, a[1], a[2])
  \/ \E h \in Hooks : Read(h)
  \/ \E h \in Hooks : HookSubscribe(h)
  \/ \E h \in Hooks : HookUnsubscribe(h)

HookSpec == Init /\ [][HookNext]_vars

\* What set and subscribe are called with where selectors and equality functions
\* throw.
ThrowNextStates ==
  {[fn |-> "", partial |-> p] :
     p \in {[count |-> Num(c)] : c \in Counts} \cup {[name |-> Str(n)] : n \in Names}}

ThrowArgs ==
  {<<"spy", "count", "undefined">>, <<"setName", "count", "undefined">>,
   <<"spy", "nameChecked", "undefined">>, <<"spy", "count", "throws">>}

\* The store with entries whose selector or equality function throws.
ThrowNext ==
  \/ \E nextState \in ThrowNextStates : Set(nextState)
  \/ \E a \in ThrowArgs : Subscribe(a[1], a[2], a[3])
  \/ \E id \in 1..MaxEntries : Unsubscribe(id)

ThrowSpec == Init /\ [][ThrowNext]_vars

(* ------------------------------------------------------------------ *)
(* The comparator alone                                               *)
(* ------------------------------------------------------------------ *)
\* Two objects with the same contents.
Inner1 == Obj(20, [x |-> Num(1)])
Inner2 == Obj(21, [x |-> Num(1)])

\* The values shallow is called with: the values of the tests, of every kind the
\* comparator distinguishes, several of each container kind.
ShallowInputs ==
  << Undefined, Null, Num(0), Num(1), NaN, Str("1"), Str("a"), Bool(TRUE),
     Fn(30), Fn(31),
     Arr(40, <<>>), Arr(41, <<Num(1)>>), Arr(42, <<Num(1)>>),
     Arr(43, <<Num(1), Num(2)>>), Arr(44, <<Num(2)>>),
     Arr(45, <<Inner1>>), Arr(46, <<Inner1>>), Arr(47, <<Inner2>>),
     Arr(48, <<NaN>>), Arr(49, <<NaN>>),
     Obj(50, EmptyPartial), Obj(51, [k \in {"0"} |-> Num(1)]),
     Obj(52, [a |-> Num(1)]), Obj(53, [a |-> Num(1)]), Obj(54, [a |-> Num(2)]),
     Obj(55, [b |-> Num(1)]), Obj(56, [a |-> Num(1), b |-> Num(2)]),
     Obj(57, [a |-> Inner1]), Obj(58, [a |-> Inner1]), Obj(59, [a |-> Inner2]),
     Obj(65, [a |-> Undefined]), Obj(66, [b |-> Undefined]),
     ObjWith(67, [b |-> Num(2)], [a |-> Num(1)]),
     DateVal(60, 1, FALSE), DateVal(61, 1, FALSE), DateVal(62, 2, FALSE),
     DateVal(63, 0, TRUE), DateVal(64, 0, TRUE),
     RegExpVal(70, "/a/"), RegExpVal(71, "/a/"), RegExpVal(72, "/b/"),
     MapVal(80, EmptyPartial), MapVal(81, [a |-> Num(1)]), MapVal(82, [a |-> Num(1)]),
     MapVal(83, [a |-> Num(2)]), MapVal(84, [b |-> Num(1)]),
     MapVal(85, [a |-> Inner1]), MapVal(86, [a |-> Inner2]),
     MapVal(87, [a |-> Undefined]), MapVal(88, [b |-> Undefined]),
     SetVal(90, EmptyPartial), SetVal(91, [m \in {1} |-> TRUE]),
     SetVal(92, [m \in {1} |-> TRUE]), SetVal(93, [m \in {2} |-> TRUE]),
     SetVal(94, [m \in {1, 2} |-> TRUE]) >>

\* Before a call of shallow(a, b) on two of the values.
ShallowInit ==
  /\ value = InitialValue
  /\ listeners = <<>>
  /\ version = 1
  /\ entries = <<>>
  /\ hooks = [h \in Hooks |-> NoHook]
  /\ calls = <<>>
  /\ removed = {}
  /\ thrown = ""
  /\ run = NoRun
  /\ op = [name |-> "create", id |-> 0]
  /\ \E i, j \in DOMAIN ShallowInputs :
       cmp = [a |-> ShallowInputs[i], b |-> ShallowInputs[j], done |-> FALSE, result |-> FALSE]

\* shallow(a, b)
Compare ==
  /\ ~cmp.done
  /\ cmp' = [cmp EXCEPT !.done = TRUE, !.result = shallow(cmp.a, cmp.b)]
  /\ op' = [name |-> "shallow", id |-> 0]
  /\ UNCHANGED <<value, listeners, version, entries, hooks, calls, removed, thrown, run>>

ShallowNext == Compare

ShallowSpec == ShallowInit /\ [][ShallowNext]_vars

\* What set is called with beside components inside and outside a Provider.
ProviderNextStates == {[fn |-> "", partial |-> [count |-> Num(c)]] : c \in Counts}

\* Components that call useStoreSelector inside and outside a Provider.
ProviderNext ==
  \/ \E nextState \in ProviderNextStates : Set(nextState)
  \/ \E a \in OtherArgs : Subscribe(a[1], a[2], a[3])
  \/ \E h \in Hooks, a \in HookArgs : Mount(h, a[1], a[2])
  \/ \E h \in Hooks, a \in HookArgs : MountOutside(h, a[1], a[2])

ProviderSpec == Init /\ [][ProviderNext]_vars

(* ------------------------------------------------------------------ *)
(* Properties                                                         *)
(* ------------------------------------------------------------------ *)
\* How often the set call `call` invoked the callback of entry id.
Invocations(call, id) ==
  Cardinality({j \in DOMAIN call.invoked : call.invoked[j].entry = id})

\* entry.equalityFn(entry.selector(newState), entry.selector(oldState)) of a call
EqualityHolds(id, call) ==
  CallEq(entries[id].equalityFn,
         ApplyFn(entries[id].selector, call.new, 0 - 1),
         ApplyFn(entries[id].selector, call.old, 0 - 2))

\* The entries in the Set when the call started.
Live(call) == {call.live[j] : j \in DOMAIN call.live}

\* C1: in every set call, each entry live at the call has its callback invoked at
\* most once, and only when its equality function returned false on the selections
\* of the new and the old state; when it returned true the callback is not invoked
\* although the call replaced the state object.
C1_NotifiedAtMostOnceOnlyIfChanged ==
  \A i \in DOMAIN calls : \A id \in Live(calls[i]) :
    /\ Invocations(calls[i], id) <= 1
    /\ Invocations(calls[i], id) = 1 => ~EqualityHolds(id, calls[i])
    /\ EqualityHolds(id, calls[i]) =>
         Invocations(calls[i], id) = 0 /\ calls[i].new.ref # calls[i].old.ref

\* A set call with an entry whose equality function held (not invoked) beside an
\* entry that was invoked.
C1_Witness ==
  \E i \in DOMAIN calls : \E id, other \in Live(calls[i]) :
    /\ EqualityHolds(id, calls[i]) /\ Invocations(calls[i], id) = 0
    /\ Invocations(calls[i], other) = 1
    /\ value.ref # calls[1].old.ref

\* C2: when a set call returns, every entry registered when it started whose
\* equality function returned false has had its callback invoked exactly once by
\* that call.
C2_EveryChangedEntryNotified ==
  \A i \in DOMAIN calls : calls[i].returned =>
    \A id \in Live(calls[i]) :
      ~EqualityHolds(id, calls[i]) => Invocations(calls[i], id) = 1

\* A returned set call that invoked two entries.
C2_Witness ==
  \E i \in DOMAIN calls : calls[i].returned /\
    \E id, other \in Live(calls[i]) :
      /\ id # other
      /\ Invocations(calls[i], id) = 1 /\ Invocations(calls[i], other) = 1

\* The one-level shallow merge of a state S with a partial update P, field by
\* field: P's value for a field P names, S's own value for every other field.
IsShallowMerge(M, S, P) ==
  /\ DOMAIN M = (DOMAIN S) \cup (DOMAIN P)
  /\ \A f \in DOMAIN M :
       IF f \in DOMAIN P THEN ObjectIs(M[f], P[f]) /\ M[f] = P[f]
       ELSE ObjectIs(M[f], S[f]) /\ M[f] = S[f]

\* C3 as stated: after store.set(P) returns, store.get() is the shallow merge of
\* the state before the call with P.
C3_Original ==
  [][op'.name = "set" =>
       IsShallowMerge(value'.body, value.body, calls'[1].update)]_vars

\* C3, amended: every set call commits the shallow merge of the state current at
\* the call with its update, and when store.set(P) returns store.get() is the
\* state before the call with P and then the updates of the set calls its
\* callbacks made merged in, in call order; with no such call that is the
\* shallow merge of the previous state with P.
C3_StateIsFoldOfMerges ==
  [][op'.name = "set" =>
       /\ calls'[1].old = value
       /\ \A i \in DOMAIN calls' :
            /\ IsShallowMerge(calls'[i].new.body, calls'[i].old.body, calls'[i].update)
            /\ i > 1 => calls'[i].old = calls'[i - 1].new
       /\ value' = calls'[Len(calls')].new
       /\ Len(calls') = 1 =>
            IsShallowMerge(value'.body, value.body, calls'[1].update)]_vars

\* A set({ count }) whose callback called set({ name: "y" }): a field the outer
\* update does not name has changed when the outer call returns.
C3_Witness ==
  /\ op.name = "set"
  /\ Len(calls) >= 2
  /\ DOMAIN calls[1].update = {"count"}
  /\ ~ObjectIs(value.body.name, calls[1].old.body.name)
  /\ ObjectIs(value.body.count, calls[1].update.count)

\* An update that leaves the state as it is, field by field.
IsNoOp(call) ==
  \A f \in DOMAIN call.update :
    f \in DOMAIN call.old.body /\ ObjectIs(call.update[f], call.old.body[f])

\* An entry whose selector builds a new object on every call and whose equality
\* function is Object.is.
FreshUnderIdentity(id) ==
  entries[id].selector = "countObj" /\ entries[id].equalityFn = "is"

\* C4 as stated: a set whose update leaves every field as it is invokes no
\* callback and does not advance the version, whatever entries are registered.
C4_Original ==
  \A i \in DOMAIN calls :
    IsNoOp(calls[i]) =>
      calls[i].invoked = <<>> /\ calls[i].after = calls[i].before

\* C4, amended: a set whose update leaves every field as it is invokes no callback
\* and does not advance the version, provided no registered entry pairs a selector
\* that returns a new object on every call with identity equality (the default).
C4_NoOpUpdateNotifiesNobody ==
  \A i \in DOMAIN calls :
    (IsNoOp(calls[i]) /\ \A id \in Live(calls[i]) : ~FreshUnderIdentity(id)) =>
      /\ calls[i].invoked = <<>>
      /\ calls[i].after = calls[i].before
      /\ i = Len(calls) => version = calls[i].before

\* A no-op set({ count: 0 }) with two entries registered, one of them selecting
\* a new object under shallow, that replaced the state object.
C4_Witness ==
  /\ op.name = "set"
  /\ IsNoOp(calls[1])
  /\ DOMAIN calls[1].update # {}
  /\ Cardinality(Live(calls[1])) = 2
  /\ \E id \in Live(calls[1]) :
       entries[id].selector = "countObj" /\ entries[id].equalityFn = "shallow"
  /\ \A id \in Live(calls[1]) : ~FreshUnderIdentity(id)
  /\ calls[1].new.ref # calls[1].old.ref

\* C5: the version never decreases; each set call (a re-entrant one counted on its
\* own) advances it by one when it queued a callback and leaves it when it queued
\* none; nothing else changes it.
C5_VersionAdvancesOncePerNotifyingSet ==
  [][/\ version' >= version
     /\ op'.name # "set" => version' = version
     /\ op'.name = "set" =>
          /\ calls'[1].before = version
          /\ \A i \in DOMAIN calls' :
               calls'[i].after =
                 calls'[i].before + (IF calls'[i].queue # <<>> THEN 1 ELSE 0)
          /\ version' =
               version + Cardinality({i \in DOMAIN calls' : calls'[i].queue # <<>>})]_vars

\* A set whose callback called set again, both calls queueing callbacks: the
\* version is two above what it was.
C5_Witness ==
  /\ op.name = "set"
  /\ Len(calls) = 2
  /\ calls[1].queue # <<>> /\ calls[2].queue # <<>>
  /\ calls[2].depth = 1
  /\ version = calls[1].before + 2

\* A step in which the host reads hook h.
IsRead(h) == op'.name = "read" /\ op'.id = h

\* Two values with the same kind and contents (for objects: whatever their
\* identities).
SameContents(a, b) ==
  /\ a.kind = b.kind
  /\ a.num = b.num /\ a.nan = b.nan /\ a.str = b.str
  /\ a.body = b.body

\* C6: two consecutive reads of a hook with no set call between them return the
\* identical reference, also when the first of the two replaced the cache.
C6_ConsecutiveReadsIdentical ==
  [][\A h \in Hooks :
       (IsRead(h) /\ hooks[h].since = "clean") =>
          ObjectIs(hooks'[h].ret, hooks[h].ret)]_vars

\* A hook whose selector builds a new object on every call, read twice in a row,
\* the first read having replaced the cache.
C6_Witness ==
  \E h \in Hooks :
    /\ op.name = "read" /\ op.id = h
    /\ hooks[h].selector = "countObj"
    /\ hooks[h].prev = "refresh" /\ hooks[h].read = "cached"

\* C7: a read with the store's version equal to the hook's lastVersion returns the
\* cached lastSnapshot and leaves both cached fields as they are, whatever set
\* calls have replaced the state since; a read with a different version returns
\* selector(store.get()) and stores it and the current version in the cache.
C7_ReadReturnsCacheOrRefreshes ==
  [][\A h \in Hooks : IsRead(h) =>
       IF hooks[h].lastVersion = version
       THEN /\ ObjectIs(hooks'[h].ret, hooks[h].lastSnapshot)
            /\ hooks'[h].lastSnapshot = hooks[h].lastSnapshot
            /\ hooks'[h].lastVersion = hooks[h].lastVersion
       ELSE /\ SameContents(hooks'[h].ret, ApplyFn(hooks[h].selector, value, 0))
            /\ hooks[h].selector = "countObj" =>
                 hooks'[h].ret.ref \notin {hooks[h].lastSnapshot.ref, hooks[h].ret.ref, value.ref}
            /\ hooks[h].selector # "countObj" =>
                 ObjectIs(hooks'[h].ret, ApplyFn(hooks[h].selector, value, 0))
            /\ hooks'[h].lastSnapshot = hooks'[h].ret
            /\ hooks'[h].lastVersion = version]_vars

\* A read that returned the cache after set calls that replaced the state object
\* and changed the selected field without advancing the version.
C7_Witness ==
  \E h \in Hooks :
    /\ op.name = "read" /\ op.id = h
    /\ hooks[h].read = "cached"
    /\ hooks[h].lastVersion = version
    /\ hooks[h].selector = "count"
    /\ ~ObjectIs(hooks[h].ret, value.body.count)

\* C8: if every set call between two reads of a hook left the hook's selection
\* unchanged by the hook's equality function, the two reads return the identical
\* reference, also when those set calls notified other entries.
C8_StableSelectionSameReference ==
  [][\A h \in Hooks :
       (IsRead(h) /\ hooks[h].since \in {"clean", "stable"}) =>
          ObjectIs(hooks'[h].ret, hooks[h].ret)]_vars

\* C9: once the thunk of an entry has been called, no set call invokes the entry's
\* callback any more, and calling the thunk again changes nothing: the listener
\* Set, the state and the version stay as they are.
C9_UnsubscribeIsFinal ==
  [][/\ \A id \in removed : \A i \in DOMAIN calls' : Invocations(calls'[i], id) = 0
     /\ (op'.name = "unsubscribe" /\ op'.id \in removed) =>
          UNCHANGED <<listeners, value, version, entries>>
     /\ \A id \in removed : \A j \in DOMAIN listeners' : listeners'[j] # id]_vars

\* A set that changed the selection of an entry whose thunk had been called: the
\* entry was not in the Set at the call and was not invoked, while another entry
\* was.
C9_Witness ==
  /\ op.name = "set"
  /\ calls # <<>>
  /\ \E id \in removed :
       /\ ~EqualityHolds(id, calls[1])
       /\ id \notin Live(calls[1])
       /\ \A i \in DOMAIN calls : Invocations(calls[i], id) = 0
  /\ calls[1].invoked # <<>>

\* The field an entry's selector projects, for the selectors that return a field.
FieldOf(id) == entries[id].selector

\* A set call whose update changed the value of field f and of no other field.
ChangedOnly(call, f) ==
  /\ ~ObjectIs(call.new.body[f], call.old.body[f])
  /\ \A g \in (DOMAIN call.new.body) \ {f} :
       ObjectIs(call.new.body[g], call.old.body[g])

\* C10: with two entries under identity equality whose selectors return different
\* fields A and B, a set call that changes only the value of field A invokes the
\* callback of the entry selecting A and not that of the entry selecting B.
C10_SelectorIsolation ==
  \A i \in DOMAIN calls : \A a, b \in Live(calls[i]) :
    ( /\ FieldOf(a) \in {"count", "name", "user"}
      /\ FieldOf(b) \in {"count", "name", "user"}
      /\ FieldOf(a) # FieldOf(b)
      /\ entries[a].equalityFn = "is" /\ entries[b].equalityFn = "is"
      /\ ChangedOnly(calls[i], FieldOf(a)) ) =>
        Invocations(calls[i], a) = 1 /\ Invocations(calls[i], b) = 0

\* A set that changed only name, with an entry selecting count subscribed before
\* an entry selecting name: the second was invoked, the first was not.
C10_Witness ==
  \E i \in DOMAIN calls : \E a, b \in Live(calls[i]) :
    /\ FieldOf(a) = "name" /\ FieldOf(b) = "count"
    /\ b < a
    /\ ChangedOnly(calls[i], "name")
    /\ Invocations(calls[i], a) = 1 /\ Invocations(calls[i], b) = 0

\* C11: set(fn) calls fn with the state current at the call and commits the
\* shallow merge of that state with fn's result; after k set(fn) calls in a row
\* count is the count before the first of them plus k, and an entry selecting
\* count under identity that was registered at each of them has been invoked
\* exactly k times.
C11_UpdaterAppliedToCurrentState ==
  [][op'.name = "setFn" =>
       /\ calls'[1].old = value
       /\ calls'[1].update = [count |-> Num(value.body.count.num + 1)]
       /\ IsShallowMerge(value'.body, value.body, calls'[1].update)
       /\ value'.body.count = Num(run'.base + run'.n)
       /\ run'.n = run.n + 1
       /\ \A id \in run'.live :
            (entries[id].selector = "count" /\ entries[id].equalityFn = "is") =>
               run'.hits[id] = run'.n]_vars

\* Two set(fn) calls in a row with an entry selecting count registered at both:
\* count is two above what it was and the entry was invoked twice.
C11_Witness ==
  /\ op.name = "setFn"
  /\ run.n = 2
  /\ value.body.count = Num(run.base + 2)
  /\ \E id \in run.live :
       entries[id].selector = "count" /\ run.hits[id] = 2

\* C12: a set call on which nothing throws commits the merged state whether or not
\* it queued a callback: also when none is queued (no callback runs, the version
\* stays), store.get() afterwards is the new merged state, an object other than
\* the one store.get() returned before the call.
C12_CommitIsUnconditional ==
  [][(op'.name = "set" /\ thrown' = "") =>
       /\ value' = calls'[Len(calls')].new
       /\ get([value |-> value']) = value'
       /\ value'.ref # value.ref
       /\ calls'[1].queue = <<>> =>
            /\ Len(calls') = 1
            /\ calls'[1].invoked = <<>>
            /\ version' = version
            /\ IsShallowMerge(value'.body, value.body, calls'[1].update)]_vars

\* A set({ name }) with only an entry selecting count registered: nothing was
\* queued, the version stayed, and the state is a new object with the new name.
C12_Witness ==
  /\ op.name = "set"
  /\ calls[1].queue = <<>>
  /\ calls[1].live # <<>>
  /\ version = calls[1].before
  /\ value.ref # calls[1].old.ref
  /\ ~ObjectIs(value.body.name, calls[1].old.body.name)
  /\ ObjectIs(value.body.name, calls[1].update.name)

\* The fields named by the update of some set call of the last operation.
Touched == UNION {DOMAIN calls[i].update : i \in DOMAIN calls}

\* C13 as stated: after set(P), every field P does not name is the same
\* reference as before the call.
C13_Original ==
  op.name = "set" =>
    \A f \in (DOMAIN calls[1].old.body) \ (DOMAIN calls[1].update) :
      ObjectIs(value.body[f], calls[1].old.body[f])

\* C13, amended: every set call keeps the identity of each field its own update
\* does not name, and does not notify an entry under identity equality whose
\* selector returns such a field; after set(P) returns, every field named neither
\* by P nor by the update of a set call made by a notified callback is the same
\* reference as before.
C13_UntouchedFieldsKeepIdentity ==
  /\ \A i \in DOMAIN calls :
       /\ \A f \in (DOMAIN calls[i].old.body) \ (DOMAIN calls[i].update) :
            /\ ObjectIs(calls[i].new.body[f], calls[i].old.body[f])
            /\ calls[i].new.body[f] = calls[i].old.body[f]
       /\ \A id \in Live(calls[i]) :
            ( /\ entries[id].selector \in {"count", "name", "user"}
              /\ entries[id].equalityFn = "is"
              /\ entries[id].selector \notin DOMAIN calls[i].update ) =>
               Invocations(calls[i], id) = 0
  /\ op.name = "set" =>
       \A f \in (DOMAIN calls[1].old.body) \ Touched :
         ObjectIs(value.body[f], calls[1].old.body[f])

\* A set({ count }) that changed count while an entry selecting user under
\* identity was registered beside an entry selecting count: user, replaced
\* earlier, is the same object as before, the first entry was not invoked, the
\* second was.
C13_Witness ==
  /\ op.name = "set"
  /\ DOMAIN calls[1].update = {"count"}
  /\ ~ObjectIs(value.body.count, calls[1].old.body.count)
  /\ value.body.user = User2
  /\ ObjectIs(value.body.user, calls[1].old.body.user)
  /\ \E id, other \in Live(calls[1]) :
       /\ entries[id].selector = "user" /\ entries[id].equalityFn = "is"
       /\ Invocations(calls[1], id) = 0
       /\ entries[other].selector = "count"
       /\ Invocations(calls[1], other) = 1

\* C14: useStoreSelector called with no store reachable from the context throws
\* "useStoreSelector must be used within a Provider" at once: the selector is
\* not applied (no snapshot is seeded), no entry is registered, and the state,
\* the version and the listener Set stay as they are.
C14_NoProviderThrows ==
  [][op'.name = "mountOutside" =>
       /\ thrown' = ProviderError
       /\ hooks' = hooks
       /\ hooks'[op'.id].lastSnapshot = Undefined
       /\ UNCHANGED <<value, version, listeners, entries>>]_vars

\* A component rendered outside a Provider while the store has a subscriber and
\* has been updated: the error was thrown and the hook holds no snapshot.
C14_Witness ==
  /\ op.name = "mountOutside"
  /\ thrown = ProviderError
  /\ hooks[op.id].phase = "unmounted"
  /\ listeners # <<>>
  /\ value # InitialValue

\* Whether the selector or the equality function of an entry throws when the
\* entry is tested by a set call.
TestThrows(entry, call) ==
  \/ SelectorThrows(entry.selector, call.new)
  \/ SelectorThrows(entry.selector, call.old)
  \/ entry.equalityFn = "throws"

\* C15: when the selector or the equality function of a registered entry throws
\* during a set call, the exception reaches the caller of set, and the committed
\* state, the version and the listener Set are what they were before that call,
\* which has invoked no callback.
C15_ThrowingSelectorLeavesStore ==
  [][(op'.name = "set" /\ \E id \in DOMAIN entries :
        \E i \in DOMAIN calls' :
          id \in Live(calls'[i]) /\ TestThrows(entries[id], calls'[i])) =>
       LET c == calls'[Len(calls')]
       IN /\ thrown' \in {"selector", "equalityFn"}
          /\ \A i \in DOMAIN calls' : ~calls'[i].returned
          /\ c.invoked = <<>>
          /\ value' = c.old /\ version' = c.before /\ listeners' = c.live
          /\ Len(calls') = 1 => UNCHANGED <<value, version, listeners>>]_vars

\* A set({ name: "y" }) on which the selector of the second of two entries threw,
\* after the store had been updated: nothing has changed.
C15_Witness ==
  /\ op.name = "set"
  /\ thrown = "selector"
  /\ Len(calls) = 1
  /\ Len(calls[1].live) = 2
  /\ ThrowAt([listeners |-> calls[1].live, entries |-> entries, value |-> calls[1].old],
             calls[1].new) = 2
  /\ value = calls[1].old
  /\ value # InitialValue
  /\ ~ObjectIs(calls[1].new.body.name, value.body.name)

\* The kinds of values the comparator is specified over.
Kinds ==
  {"null", "undefined", "number", "string", "boolean",
   "array", "date", "regexp", "map", "set", "object"}

\* C16: shallow(a, b) is false for two values of different kinds, whatever their
\* contents: array against plain object with numeric keys, and any two different
\* container kinds.
C16_DifferentKindsUnequal ==
  (cmp.done /\ cmp.a.kind \in Kinds /\ cmp.b.kind \in Kinds
     /\ cmp.a.kind # cmp.b.kind) => ~cmp.result

\* The one-level comparison of two containers of the same kind: the same number
\* of indices, keys or members, and each one of a found in b with a value that
\* is the same by Object.is. For plain objects the keys counted and looked up
\* are the enumerable own keys, and a key of a is found in b when it is an own
\* property of b, enumerable or not.
OneLevel(a, b) ==
  CASE a.kind = "array" ->
         /\ Len(a.body) = Len(b.body)
         /\ \A i \in DOMAIN a.body : ObjectIs(a.body[i], b.body[i])
    [] a.kind = "set" ->
         /\ Cardinality(DOMAIN a.body) = Cardinality(DOMAIN b.body)
         /\ (DOMAIN a.body) \subseteq (DOMAIN b.body)
    [] a.kind = "object" ->
         /\ Cardinality(DOMAIN a.body) = Cardinality(DOMAIN b.body)
         /\ (DOMAIN a.body) \subseteq (DOMAIN b.body) \cup (DOMAIN b.hidden)
         /\ \A k \in DOMAIN a.body :
              ObjectIs(a.body[k],
                       IF k \in DOMAIN b.body THEN b.body[k] ELSE b.hidden[k])
    [] OTHER ->
         /\ Cardinality(DOMAIN a.body) = Cardinality(DOMAIN b.body)
         /\ (DOMAIN a.body) \subseteq (DOMAIN b.body)
         /\ \A k \in DOMAIN a.body : ObjectIs(a.body[k], b.body[k])

C18_ReflexiveNullsApart ==
  cmp.done =>
    /\ ObjectIs(cmp.a, cmp.b) => cmp.result
    /\ (cmp.a.kind \in {"null", "undefined"} \/ cmp.b.kind \in {"null", "undefined"}) =>
         (cmp.result <=> cmp.a.kind = cmp.b.kind)

\* shallow(NaN, NaN): true.
C18_Witness ==
  /\ cmp.done
  /\ cmp.a.kind = "number" /\ cmp.a.nan
  /\ cmp.b.kind = "number" /\ cmp.b.nan
  /\ cmp.result

\* C19: whatever set calls, first renders, subscriptions, unsubscriptions and
\* reads came before, every read of a hook returns a value its equality function
\* (Object.is when none was given) takes for equal to selector(store.get()) at
\* the time of the read. Stated for the hooks whose equality function holds
\* between two selections of one state.
C19_ReadsAreFresh ==
  [][\A h \in Hooks :
       (IsRead(h) /\ ~(hooks[h].selector = "countObj" /\ hooks[h].equalityFn = "undefined")) =>
          CallEq(hooks[h].equalityFn, hooks'[h].ret,
                 ApplyFn(hooks[h].selector, get([value |-> value']), 0))]_vars

\* C20: in a set call that queues callbacks, the version is advanced before the
\* first queued callback runs, the queued callbacks run in the order in which
\* their entries were subscribed, and all of them have run when set returns.
C20_VersionThenCallbacksInOrder ==
  \A i \in DOMAIN calls :
    LET c == calls[i]
    IN /\ \A j \in DOMAIN c.invoked :
            /\ j <= Len(c.queue) /\ c.invoked[j].entry = c.queue[j]
            /\ c.invoked[j].version >= c.before + 1
            /\ j = 1 => c.invoked[j].version = c.before + 1
            /\ j > 1 => c.invoked[j - 1].entry < c.invoked[j].entry
       /\ \A j \in DOMAIN c.queue :
            /\ c.queue[j] \in Live(c)
            /\ j > 1 => c.queue[j - 1] < c.queue[j]
       /\ c.returned => Len(c.invoked) = Len(c.queue)

\* A returned set call that queued two callbacks: the entry subscribed first ran
\* first and saw the advanced version and the committed state.
C20_Witness ==
  \E i \in DOMAIN calls :
    /\ calls[i].returned
    /\ Len(calls[i].queue) = 2
    /\ Len(calls[i].invoked) = 2
    /\ calls[i].invoked[1].entry < calls[i].invoked[2].entry
    /\ calls[i].invoked[1].version = calls[i].before + 1
    /\ calls[i].invoked[1].value = calls[i].new

\* The State objects are complete: they hold every field of the initial state.
IsComplete(state) == DOMAIN state.body = DOMAIN InitialValue.body

\* C21: a read never observes a partially applied update: while a set call tests
\* the entries (selectors and equality functions), store.get() is the complete
\* state committed before the call; when a callback the call queued is invoked,
\* store.get() is the complete merged state of that call or of a later one.
C21_NoPartialReads ==
  [][op'.name = "set" =>
       \A i \in DOMAIN calls' :
         LET c == calls'[i]
             previous == IF i = 1 THEN value ELSE calls'[i - 1].new
         IN /\ IsComplete(c.old) /\ IsComplete(c.new)
            /\ IsShallowMerge(c.new.body, previous.body, c.update)
            /\ Len(c.tested) = Len(c.live)
            /\ \A j \in DOMAIN c.tested :
                 c.tested[j].value = previous /\ c.tested[j].entry = c.live[j]
            /\ \A j \in DOMAIN c.invoked :
                 \E m \in i..Len(calls') : c.invoked[j].value = calls'[m].new]_vars

\* A set call that tested two entries on the previous state and then invoked two
\* callbacks, the first on its own merged state and, after that callback called
\* set, the second on the state of the later call.
C21_Witness ==
  /\ op.name = "set"
  /\ Len(calls) >= 2
  /\ Len(calls[1].tested) = 2
  /\ Len(calls[1].invoked) = 2
  /\ calls[1].invoked[1].value = calls[1].new
  /\ calls[1].invoked[2].value = calls[2].new
  /\ calls[1].new # calls[2].new
  /\ calls[1].tested[1].value = calls[1].old

\* The set call the callback of invocation j of call i made: the next call that
\* started one level deeper after exactly the invocations up to that one (0: none).
NestedCall(log, i, j) ==
  LET made == {m \in DOMAIN log : /\ m > i
                                  /\ log[m].depth = log[i].depth + 1
                                  /\ log[m].start = log[i].invoked[j].order}
  IN IF made = {} THEN 0 ELSE CHOOSE m \in made : \A n \in made : m <= n

\* The last call of the log that set field f (0: none).
LastSetter(log, f) ==
  LET setters == {m \in DOMAIN log : f \in DOMAIN log[m].update}
  IN IF setters = {} THEN 0 ELSE CHOOSE m \in setters : \A n \in setters : m >= n

\* C22: a set call made by a notified callback is a complete update cycle of its
\* own, run before the outer call invokes its remaining callbacks: it merges into
\* the state the callback found committed, commits, increments the version when it
\* queued a callback, and invokes all its callbacks; the callbacks the outer call
\* invokes afterwards come later and see its state and version. When the outer
\* call has returned, the state holds every update of the operation, later ones
\* over earlier ones, and the version counts every call that queued a callback.
C22_ReentrantSetIsCompleteCycle ==
  [][op'.name = "set" =>
       /\ \A i \in DOMAIN calls' : \A j \in DOMAIN calls'[i].invoked :
            entries[calls'[i].invoked[j].entry].callback = "setName" =>
              LET m == NestedCall(calls', i, j)
                  outer == calls'[i]
                  inner == calls'[m]
              IN /\ m # 0
                 /\ inner.old = outer.invoked[j].value
                 /\ inner.before = outer.invoked[j].version
                 /\ inner.update = [name |-> Str("y")]
                 /\ IsShallowMerge(inner.new.body, inner.old.body, inner.update)
                 /\ inner.after = IF Len(inner.queue) # 0 THEN inner.before + 1
                                                          ELSE inner.before
                 /\ Len(inner.invoked) = Len(inner.queue)
                 /\ inner.returned
                 /\ \A n \in DOMAIN inner.invoked :
                      /\ inner.invoked[n].order > outer.invoked[j].order
                      /\ inner.invoked[n].version = inner.after
                 /\ \A l \in DOMAIN outer.invoked :
                      l > j =>
                        /\ \A n \in DOMAIN inner.invoked :
                             outer.invoked[l].order > inner.invoked[n].order
                        /\ outer.invoked[l].version >= inner.after
                        /\ \E n \in m..Len(calls') :
                             outer.invoked[l].value = calls'[n].new
       /\ value' = calls'[Len(calls')].new
       /\ \A f \in DOMAIN value'.body :
            LET m == LastSetter(calls', f)
            IN IF m = 0 THEN value'.body[f] = value.body[f]
               ELSE value'.body[f] = calls'[m].update[f]
       /\ version' = version
                       + Cardinality({i \in DOMAIN calls' : Len(calls'[i].queue) # 0})]_vars

\* An outer set of count queued a callback that calls set and a second callback;
\* the inner set queued and invoked the second callback (invocation 2) and
\* incremented the version, and only then the outer call invoked it (invocation 3),
\* on the state that holds both updates.
C22_Witness ==
  /\ op.name = "set"
  /\ Len(calls) = 2
  /\ Len(calls[1].queue) = 2
  /\ calls[2].depth = 1
  /\ calls[2].start = 1
  /\ Len(calls[2].invoked) = 1
  /\ calls[2].invoked[1].order = 2
  /\ calls[1].invoked[2].order = 3
  /\ calls[1].invoked[2].entry = calls[2].invoked[1].entry
  /\ calls[2].after = calls[1].before + 2
  /\ version = calls[2].after
  /\ calls[1].returned
  /\ value.body.count = calls[1].update.count
  /\ value.body.name = Str("y")
  /\ calls[1].old.body.name = Str("x")
  /\ calls[1].old.body.count # calls[1].update.count

\* The entries whose callbacks call i of the log invoked, in order.
InvokedEntries(log, i) == [j \in DOMAIN log[i].invoked |-> log[i].invoked[j].entry]

\* C23: the callbacks a set call invokes are fixed when its pass over the entries
\* ends: it invokes exactly the callbacks it queued, an entry subscribed by a
\* callback during the notification is not invoked by that call, and a queued entry
\* whose thunk an earlier callback of the call ran is invoked all the same.
C23_QueueFixedBeforeNotification ==
  [][op'.name = "set" =>
       \A i \in DOMAIN calls' :
         /\ InvokedEntries(calls', i) = calls'[i].queue
         /\ \A id \in (DOMAIN entries') \ (DOMAIN entries) :
              \A j \in DOMAIN calls'[i].invoked : calls'[i].invoked[j].entry # id
         /\ \A n \in DOMAIN calls'[i].queue :
              calls'[i].queue[n] \in removed' \ removed =>
                Cardinality({j \in DOMAIN calls'[i].invoked :
                               calls'[i].invoked[j].entry = calls'[i].queue[n]}) = 1]_vars

\* A set call queued two callbacks; the first deleted the second's entry, the
\* second was invoked all the same and subscribed a third entry, which would test
\* as changed and was not invoked.
C23_Witness ==
  /\ op.name = "set"
  /\ Len(calls) = 1
  /\ calls[1].queue = <<1, 2>>
  /\ entries[1].callback = "unsubscribeNext"
  /\ entries[2].callback = "subscribe"
  /\ 2 \in removed
  /\ InvokedEntries(calls, 1) = <<1, 2>>
  /\ Len(entries) = 3
  /\ entries[3].selector = "countObj"
  /\ listeners = <<1, 3>>

\* C24: when a notified callback throws, the set call ends there and nothing is
\* rolled back: the merged state of every call made stays committed, the version
\* stays incremented once for every call that queued a callback, the callbacks
\* invoked are the queued ones up to the throwing one, in order, none after it.
C24_CallbackThrowNoRollback ==
  [][op'.name = "set" =>
       /\ thrown' = "callback" <=> \E i \in DOMAIN calls' : ~calls'[i].returned
       /\ thrown' = "callback" =>
            /\ ~calls'[1].returned
            /\ value' = calls'[Len(calls')].new
            /\ \A i \in DOMAIN calls' :
                 IsShallowMerge(calls'[i].new.body,
                                (IF i = 1 THEN value ELSE calls'[i - 1].new).body,
                                calls'[i].update)
            /\ version' = version
                 + Cardinality({i \in DOMAIN calls' : Len(calls'[i].queue) # 0})
            /\ listeners' = listeners
            /\ \A i \in DOMAIN calls' :
                 LET c == calls'[i]
                     n == Len(c.invoked)
                 IN IF c.returned THEN InvokedEntries(calls', i) = c.queue
                    ELSE /\ n >= 1 /\ n <= Len(c.queue)
                         /\ InvokedEntries(calls', i) = SubSeq(c.queue, 1, n)
                         /\ \A j \in 1..(n - 1) :
                              entries[c.queue[j]].callback # "throws"
                         /\ \/ entries[c.queue[n]].callback = "throws"
                            \/ /\ entries[c.queue[n]].callback = "setName"
                               /\ NestedCall(calls', i, n) # 0
                               /\ ~calls'[NestedCall(calls', i, n)].returned]_vars

\* A set call committed a changed count, incremented the version and queued two
\* callbacks; the first threw and the second was not invoked.
C24_Witness ==
  /\ op.name = "set"
  /\ thrown = "callback"
  /\ Len(calls) = 1
  /\ calls[1].queue = <<1, 2>>
  /\ entries[1].callback = "throws"
  /\ InvokedEntries(calls, 1) = <<1>>
  /\ ~calls[1].returned
  /\ value = calls[1].new
  /\ value.body.count # calls[1].old.body.count
  /\ version = calls[1].before + 1

\* C25: an entry is one subscribe call, whatever its arguments: subscribing appends
\* a new entry also when an entry with the same callback, selector and equality
\* function is registered; a thunk deletes its own entry and no other; and of two
\* entries with the same three arguments each one registered at a set call is
\* invoked on its own, once when its selection changed, so both when both are
\* registered and the remaining one alone after the other's thunk ran.
C25_ThunkRemovesOnlyItsEntry ==
  [][/\ op'.name = "subscribe" =>
          /\ listeners' = Append(listeners, op'.id)
          /\ \A n \in DOMAIN listeners : listeners[n] # op'.id
     /\ op'.name = "unsubscribe" =>
          /\ listeners' = SelectSeq(listeners, LAMBDA x : x # op'.id)
          /\ \A n \in DOMAIN listeners :
               (listeners[n] # op'.id /\ entries[listeners[n]] = entries[op'.id]) =>
                  \E l \in DOMAIN listeners' : listeners'[l] = listeners[n]
     /\ op'.name \in {"set", "setFn"} =>
          \A a, b \in DOMAIN entries :
            (a # b /\ entries[a] = entries[b] /\ b \in Live(calls'[1])) =>
               /\ Invocations(calls'[1], b)
                    = IF EqualityHolds(b, calls'[1]) THEN 0 ELSE 1
               /\ a \notin Live(calls'[1]) => Invocations(calls'[1], a) = 0
               /\ a \in Live(calls'[1]) =>
                    Invocations(calls'[1], a) + Invocations(calls'[1], b)
                      = IF EqualityHolds(b, calls'[1]) THEN 0 ELSE 2]_vars

\* Two entries were subscribed with the same arguments, the thunk of the first
\* ran, and a set call then invoked the second and not the first.
C25_Witness ==
  /\ op.name = "set"
  /\ Len(entries) = 2
  /\ entries[1] = entries[2]
  /\ 1 \in removed
  /\ listeners = <<2>>
  /\ Invocations(calls[1], 2) = 1
  /\ Invocations(calls[1], 1) = 0

\* C26: a read that finds the store's version equal to the hook's lastVersion
\* returns the cached snapshot without applying the selector.
C26_CachedReadSkipsSelector ==
  [][(op'.name = "read" /\ hooks[op'.id].lastVersion = version) =>
       /\ hooks'[op'.id].ret = hooks[op'.id].lastSnapshot
       /\ hooks'[op'.id].applied = 0]_vars

\* The members of the listener Set.
Members(seq) == {seq[n] : n \in DOMAIN seq}

\* The callbacks of kind cb the set calls of a log invoked.
InvokedKind(log, cb) ==
  {<<i, j>> \in (DOMAIN log) \X (1..(MaxEntries + 1)) :
     j \in DOMAIN log[i].invoked /\ entries[log[i].invoked[j].entry].callback = cb}

\* What every operation but set leaves alone, and what a read changes.
FrameOfGet ==
  /\ op'.name = "get" =>
       /\ UNCHANGED <<value, version, listeners, entries, hooks>>
       /\ calls' = <<>>

FrameOfSubscribe ==
  /\ op'.name \in {"subscribe", "unsubscribe"} =>
       /\ UNCHANGED <<value, version, hooks>>
       /\ calls' = <<>>
       /\ op'.name = "subscribe" => listeners' = Append(listeners, op'.id)
       /\ op'.name = "unsubscribe" => Members(listeners') = Members(listeners) \ {op'.id}

FrameOfRead ==
  /\ op'.name = "read" =>
       /\ UNCHANGED <<value, version, listeners, entries>>
       /\ calls' = <<>>
       /\ \A g \in (DOMAIN hooks) \ {op'.id} : hooks'[g] = hooks[g]
       /\ hooks'[op'.id].phase = hooks[op'.id].phase
       /\ hooks'[op'.id].selector = hooks[op'.id].selector
       /\ hooks'[op'.id].equalityFn = hooks[op'.id].equalityFn
       /\ hooks'[op'.id].entry = hooks[op'.id].entry

C28_VersionPositiveNotificationRuns ==
  /\ version \in Nat /\ version >= 1
  /\ \A i \in DOMAIN calls :
       LET c == calls[i]
       IN /\ c.before \in Nat /\ c.before >= 1
          /\ c.queue # <<>> =>
               /\ c.after = c.before + 1
               /\ c.invoked # <<>>
               /\ c.invoked[1].entry = c.queue[1]
               /\ c.invoked[1].version >= 2
          /\ c.returned => InvokedEntries(calls, i) = c.queue

\* A set call made at a version that earlier calls had advanced: it queued two
\* callbacks, advanced the version again and invoked both.
C28_Witness ==
  /\ op.name = "set"
  /\ Len(calls) = 1
  /\ calls[1].before = MaxVersion - 1
  /\ calls[1].before > 1
  /\ version = MaxVersion
  /\ Len(calls[1].queue) = 2
  /\ InvokedEntries(calls, 1) = calls[1].queue
  /\ calls[1].returned

\* C29: shallow is symmetric: shallow(a, b) = shallow(b, a) for all values a and b.
C29_ShallowSymmetric ==
  cmp.done => (cmp.result <=> shallow(cmp.b, cmp.a))

====
